---- MODULE Spec2Model ----
(***************************************************************************)
(* State-machine model of pydups (src/pydups.py): the directory walk with  *)
(* ignore patterns, the key functions, the scan store (DB), the duplicate  *)
(* grouper, the cleaner and the command line driver.                       *)
(*                                                                         *)
(* A file name is a sequence of one-character strings, a path is a         *)
(* sequence of names (the absolute path "/a/b/x" is <<nA, nB, nX>>).       *)
(***************************************************************************)
EXTENDS Integers, Sequences, FiniteSets, TLC

VARIABLES
    fs,         \* the file system: what is at each slot
    store,      \* DB.data of the DB object in use
    result,     \* the DuplicateScanResult returned by the last operation
    last,       \* the last operation, its arguments and whether it raised
    hashed,     \* the keys md5_key was called on by the last DB.update
    cachefile,  \* the cache file given to main
    phase,      \* position of a scan-and-clean run
    ops         \* number of operations done in a store run

vars == <<fs, store, result, last, hashed, cachefile, phase, ops>>

(***************************************************************************)
(* Bounds of the model.                                                    *)
(***************************************************************************)
\* modification times are counted in ticks; a second has TicksPerSec ticks
MaxTime == 2
\* number of store operations and file system changes in a store run
MaxOps == 3
\* number of runs of main on one cache file
MaxRuns == 2
\* number of symbolic links followed while resolving one path (ELOOP)
MaxLinks == 3

TicksPerSec == 2

Times == 0..MaxTime

(***************************************************************************)
(* The file system.                                                        *)
(***************************************************************************)
nA == <<"a">>
nB == <<"b">>
nBC == <<"b", "c">>
nHid == <<".", "d">>
nX == <<"x">>
nY == <<"y">>
nL == <<"l">>
nZ == <<"z">>
DotDot == <<".", ".">>

\* the directories of the tree: /, /a, /a/b, /a/bc, /a/b/.d
Dirs == {<<>>, <<nA>>, <<nA, nB>>, <<nA, nBC>>, <<nA, nB, nHid>>}

\* the places where a file or a symbolic link may be
LinkSlot == <<nA, nB, nL>>
FileSlots == {<<nA, nB, nX>>, <<nA, nB, nY>>, <<nA, nBC, nX>>,
              <<nA, nB, nHid, nX>>}
Slots == FileSlots \cup {LinkSlot}

\* a path that names nothing
Nowhere == << <<"!">> >>

\* file contents (byte strings) and their sizes
Contents == {<<>>, <<0>>, <<1>>}

NoNode == [kind |-> "none", content |-> <<>>, mtime |-> 0, readable |-> TRUE,
           abs |-> TRUE, target |-> <<>>]
FileNode(c, t, r) == [kind |-> "file", content |-> c, mtime |-> t,
                      readable |-> r, abs |-> TRUE, target |-> <<>>]
LinkNode(isabs, parts) == [kind |-> "link", content |-> <<>>, mtime |-> 0,
                           readable |-> TRUE, abs |-> isabs, target |-> parts]

Parent(p) == IF p = <<>> THEN <<>> ELSE SubSeq(p, 1, Len(p) - 1)
Basename(p) == p[Len(p)]

\* path resolution in the file system f: cur is a real path, rest the
\* components still to apply; the last component is followed when it is a
\* symbolic link iff followlast
RECURSIVE Walk(_, _, _, _, _)
Walk(f, cur, rest, followlast, fuel) ==
    IF rest = <<>> THEN cur
    ELSE IF cur \notin Dirs THEN Nowhere
    ELSE LET c == Head(rest)
             p == Append(cur, c)
         IN  IF c = DotDot THEN Walk(f, Parent(cur), Tail(rest), followlast, fuel)
             ELSE IF p \in Slots /\ f[p].kind = "link"
                     /\ (followlast \/ Tail(rest) # <<>>)
                  THEN IF fuel = 0 THEN Nowhere
                       ELSE Walk(f, IF f[p].abs THEN <<>> ELSE cur,
                                 f[p].target \o Tail(rest), followlast, fuel - 1)
             ELSE Walk(f, p, Tail(rest), followlast, fuel)

\* os.path.realpath / stat() and lstat() of an absolute path
RealPath(f, path) == Walk(f, <<>>, path, TRUE, MaxLinks)
LPath(f, path) == Walk(f, <<>>, path, FALSE, MaxLinks)

IsDirAt(f, path, follow) ==
    (IF follow THEN RealPath(f, path) ELSE LPath(f, path)) \in Dirs
IsFileAt(f, path, follow) ==
    LET q == IF follow THEN RealPath(f, path) ELSE LPath(f, path)
    IN  q \in Slots /\ f[q].kind = "file"
IsSymlinkAt(f, path) ==
    LET q == LPath(f, path) IN q \in Slots /\ f[q].kind = "link"
LExistsAt(f, path) ==
    IsDirAt(f, path, FALSE) \/ IsFileAt(f, path, FALSE) \/ IsSymlinkAt(f, path)

\* the regular file a path names, following symbolic links
FileAt(f, path) == f[RealPath(f, path)]

(***************************************************************************)
(* scandir: the names in a directory, in the order of the listing.  The    *)
(* order is the platform's: the listing is either by name rank or the      *)
(* reverse of it.                                                          *)
(***************************************************************************)
NameRank(name) ==
    CASE name = nA -> 1 [] name = nB -> 2 [] name = nBC -> 3
      [] name = nHid -> 4 [] name = nL -> 5 [] name = nX -> 6
      [] name = nY -> 7 [] OTHER -> 8

ChildNames(f, dir) ==
    {Basename(p) : p \in {q \in (Dirs \ {<<>>}) \cup {s \in Slots : f[s].kind # "none"} :
                             Parent(q) = dir}}

RECURSIVE SortNames(_, _)
SortNames(S, rev) ==
    IF S = {} THEN <<>>
    ELSE LET n == CHOOSE m \in S : \A k \in S :
                     IF rev THEN NameRank(k) <= NameRank(m)
                            ELSE NameRank(m) <= NameRank(k)
         IN  <<n>> \o SortNames(S \ {n}, rev)

\* scandir(path) raises when path is not a directory
ScandirRaises(f, path) == ~IsDirAt(f, path, TRUE)
scandir(f, path, rev) == SortNames(ChildNames(f, RealPath(f, path)), rev)

(***************************************************************************)
(* Path Filter: fnmatch.translate and re.match on a name.                  *)
(***************************************************************************)
IGNORE_PATTERNS == << <<".", "*">>, <<"c", "a", "c", "h", "e", "*">> >>

RECURSIVE fnmatch(_, _)
fnmatch(pat, name) ==
    IF pat = <<>> THEN name = <<>>
    ELSE IF Head(pat) = "*"
         THEN fnmatch(Tail(pat), name)
              \/ (name # <<>> /\ fnmatch(pat, Tail(name)))
    ELSE IF Head(pat) = "?"
         THEN name # <<>> /\ fnmatch(Tail(pat), Tail(name))
    ELSE name # <<>> /\ Head(name) = Head(pat)
         /\ fnmatch(Tail(pat), Tail(name))

\* the compiled pattern of scantree: the alternation of the translated
\* patterns, or '-^' (matches nothing) when there are none
pattern_match(ignore_patterns, name) ==
    IF Len(ignore_patterns) > 0
    THEN \E i \in 1..Len(ignore_patterns) : fnmatch(ignore_patterns[i], name)
    ELSE FALSE

\* truth value of a Python sequence
Truthy(seq) == Len(seq) > 0

(***************************************************************************)
(* Tree Walker.                                                            *)
(***************************************************************************)
\* os.DirEntry for the entry `name` of the directory `path`
DirEntry(path, name) == [name |-> name, path |-> Append(path, name)]

RECURSIVE Flatten(_)
Flatten(ss) == IF ss = <<>> THEN <<>> ELSE Head(ss) \o Flatten(Tail(ss))

\* scantree(path, follow_symlinks, ignore_patterns): the entries yielded.
\* The recursive call passes follow_symlinks only, so below the first level
\* ignore_patterns is IGNORE_PATTERNS again.
RECURSIVE scantree(_, _, _, _, _)
scantree(f, path, follow_symlinks, ignore_patterns, rev) ==
    LET names == scandir(f, path, rev)
        visit(name) ==
            IF pattern_match(ignore_patterns, name) THEN <<>>
            ELSE LET entry == DirEntry(path, name)
                 IN  IF IsDirAt(f, entry.path, follow_symlinks)
                     THEN scantree(f, entry.path, follow_symlinks,
                                   IGNORE_PATTERNS, rev)
                     ELSE <<entry>>
    IN  Flatten([i \in 1..Len(names) |-> visit(names[i])])

(***************************************************************************)
(* Path strings.                                                           *)
(***************************************************************************)
\* os.path.normpath of an absolute path: ".." components are removed
\* lexically
RECURSIVE normpath(_, _)
normpath(done, rest) ==
    IF rest = <<>> THEN done
    ELSE IF Head(rest) = DotDot THEN normpath(Parent(done), Tail(rest))
    ELSE normpath(Append(done, Head(rest)), Tail(rest))

abspath(path) == normpath(<<>>, path)

\* the characters of the absolute path string: "/a/b" is <<"/","a","/","b">>
RECURSIVE PathStr(_)
PathStr(path) ==
    IF path = <<>> THEN <<>>
    ELSE <<"/">> \o Head(path) \o PathStr(Tail(path))

\* str.startswith
startswith(s, prefix) ==
    Len(prefix) <= Len(s) /\ SubSeq(s, 1, Len(prefix)) = prefix

\* os.path.relpath(path, start) of two absolute paths
RECURSIVE CommonLen(_, _)
CommonLen(p, q) ==
    IF p = <<>> \/ q = <<>> \/ Head(p) # Head(q) THEN 0
    ELSE 1 + CommonLen(Tail(p), Tail(q))

relpath(path, start) ==
    LET p == abspath(path)
        s == abspath(start)
        i == CommonLen(p, s)
    IN  [k \in 1..(Len(s) - i) |-> DotDot] \o SubSeq(p, i + 1, Len(p))

(***************************************************************************)
(* Key functions.                                                          *)
(***************************************************************************)
None == "None"

\* hashlib.md5(content).hexdigest() (first 8 digits) of the contents
Md5Hex(content) ==
    CASE content = <<>> -> "d41d8cd9"
      [] content = <<0>> -> "93b885ad"
      [] content = <<1>> -> "55a54008"

KeyFuncs == {"name_key", "name_and_size_key", "md5_key"}

name_key(entry) == entry.name

\* name_and_size_key that forgets the size
name_and_size_key_nosize(entry) == <<entry.name, 0>>

name_and_size_key(entry) == <<entry.name, entry.st_size>>

\* md5_key opens entry.path: it raises IOError when the file cannot be read
md5_key_raises(f, entry) ==
    ~IsFileAt(f, entry.path, TRUE) \/ ~FileAt(f, entry.path).readable
md5_key(f, entry) == Md5Hex(FileAt(f, entry.path).content)

(***************************************************************************)
(* DirEntryStore and DbEntry.                                              *)
(***************************************************************************)
\* DirEntryStore.from_entry of an os.DirEntry
from_entry(f, entry) ==
    [name |-> entry.name, path |-> entry.path,
     is_dir |-> IsDirAt(f, entry.path, TRUE),
     is_file |-> IsFileAt(f, entry.path, TRUE),
     is_symlink |-> IsSymlinkAt(f, entry.path),
     st_size |-> Len(FileAt(f, entry.path).content),
     st_mtime |-> FileAt(f, entry.path).mtime]

\* __eq__ that compares the time of one side in whole seconds, as a record
\* read back from a JSON cache has it
direntry_eq_seconds(self, other) ==
    /\ other.name = self.name
    /\ other.path = self.path
    /\ other.st_size = self.st_size
    /\ other.st_mtime = (self.st_mtime \div TicksPerSec) * TicksPerSec

\* DirEntryStore.__eq__
direntry_eq(self, other) ==
    /\ other.name = self.name
    /\ other.path = self.path
    /\ other.is_dir = self.is_dir
    /\ other.is_file = self.is_file
    /\ other.is_symlink = self.is_symlink
    /\ other.st_size = self.st_size
    /\ other.st_mtime = self.st_mtime

DbEntry(key, direntry, md5) == [key |-> key, direntry |-> direntry, md5 |-> md5]

(***************************************************************************)
(* A Python dict is a sequence of items in insertion order.                *)
(***************************************************************************)
DictKeys(d) == {d[i].key : i \in 1..Len(d)}
DictHas(d, k) == \E i \in 1..Len(d) : d[i].key = k
DictGet(d, k) == d[CHOOSE i \in 1..Len(d) : d[i].key = k]
DictSet(d, item) ==
    IF DictHas(d, item.key)
    THEN [i \in 1..Len(d) |-> IF d[i].key = item.key THEN item ELSE d[i]]
    ELSE Append(d, item)

RECURSIVE DictUpdate(_, _)
DictUpdate(d, other) ==
    IF other = <<>> THEN d
    ELSE DictUpdate(DictSet(d, Head(other)), Tail(other))

(***************************************************************************)
(* Scan Store (class DB).  The dict self.data is the variable store, or    *)
(* the argument cache.                                                     *)
(***************************************************************************)
\* clean that prunes nothing
clean_path_keep(cache, path) == cache

\* DB.clean(path) for a path: every key that starts with the prefix goes
clean_path(cache, path) ==
    LET prefix == PathStr(abspath(path))
    IN  SelectSeq(cache, LAMBDA item : ~startswith(PathStr(item.key), prefix))

\* DB.clean(path): without a path it calls self.data.reset(), and self.data
\* is a dict, which has no reset(): AttributeError
DB_clean(cache, path_is_none, path) ==
    IF path_is_none THEN [raised |-> TRUE, store |-> cache]
    ELSE [raised |-> FALSE, store |-> clean_path(cache, path)]

\* the loop of DB.update over the entries of the walk; it stops at the
\* first md5_key that raises.  hsh collects the keys md5_key was called on.
RECURSIVE update_loop(_, _, _, _, _, _)
update_loop(f, cache, entries, checksum, data, hsh) ==
    IF entries = <<>> THEN [raised |-> FALSE, data |-> data, hashed |-> hsh]
    ELSE IF ~IsFileAt(f, Head(entries).path, FALSE)
         THEN update_loop(f, cache, Tail(entries), checksum, data, hsh)
    ELSE LET entry == from_entry(f, Head(entries))
             key == abspath(entry.path)
             reuse == /\ DictHas(cache, key)
                      /\ direntry_eq(entry, DictGet(cache, key).direntry)
                      /\ \/ checksum /\ DictGet(cache, key).md5 # None
                         \/ ~checksum
         IN  IF reuse
             THEN update_loop(f, cache, Tail(entries), checksum,
                              DictSet(data, DictGet(cache, key)), hsh)
             ELSE IF checksum /\ md5_key_raises(f, entry)
                  THEN [raised |-> TRUE, data |-> data,
                        hashed |-> hsh \cup {key}]
             ELSE update_loop(f, cache, Tail(entries), checksum,
                      DictSet(data, DbEntry(key, entry,
                          IF checksum THEN md5_key(f, entry) ELSE None)),
                      IF checksum THEN hsh \cup {key} ELSE hsh)

\* DB.update(dataroot, ignore_patterns, checksum).  The call
\* scantree(dataroot, ignore_patterns) binds ignore_patterns to the second
\* parameter of scantree, follow_symlinks.
DB_update(f, cache, dataroot, ignore_patterns, checksum, rev) ==
    IF ScandirRaises(f, dataroot)
    THEN [raised |-> TRUE, data |-> <<>>, hashed |-> {}, store |-> cache]
    ELSE LET walk == scantree(f, dataroot, Truthy(ignore_patterns),
                              IGNORE_PATTERNS, rev)
             r == update_loop(f, cache, walk, checksum, <<>>, {})
         IN  IF r.raised
             THEN [raised |-> TRUE, data |-> r.data, hashed |-> r.hashed,
                   store |-> cache]
             ELSE [raised |-> FALSE, data |-> r.data, hashed |-> r.hashed,
                   store |-> DictUpdate(clean_path(cache, dataroot), r.data)]

\* make_key with the size left out of the name-and-size key and the name
\* used in place of a missing hash
make_key_nosize(dbentry, keyfunc) ==
    IF keyfunc = "md5_key" THEN dbentry.direntry.path
    ELSE name_key(dbentry.direntry)

\* DB._make_key
make_key(dbentry, keyfunc) ==
    IF keyfunc = "md5_key" THEN dbentry.md5
    ELSE IF keyfunc = "name_key" THEN name_key(dbentry.direntry)
    ELSE name_and_size_key(dbentry.direntry)

\* the first loop of find_duplicates: data[k].append(entry)
RECURSIVE group_entries(_, _, _)
group_entries(cache, keyfunc, data) ==
    IF cache = <<>> THEN data
    ELSE LET dbentry == Head(cache)
             entry == dbentry.direntry
             k == make_key(dbentry, keyfunc)
             old == IF DictHas(data, k) THEN DictGet(data, k).val ELSE <<>>
         IN  IF entry.is_file
             THEN group_entries(Tail(cache), keyfunc,
                      DictSet(data, [key |-> k, val |-> Append(old, entry)]))
             ELSE group_entries(Tail(cache), keyfunc, data)

\* the bound below which find_duplicates deletes a group
MinGroup == 2

\* DB.find_duplicates(keyfunc): a DuplicateScanResult
find_duplicates(cache, keyfunc) ==
    [data |-> SelectSeq(group_entries(cache, keyfunc, <<>>),
                        LAMBDA item : ~(Len(item.val) < MinGroup)),
     scanned_files |-> Len(cache),
     keytype |-> keyfunc]

NoResult == [data |-> <<>>, scanned_files |-> 0, keytype |-> "none"]

RECURSIVE SumSeq(_)
SumSeq(s) == IF s = <<>> THEN 0 ELSE Head(s) + SumSeq(Tail(s))

\* DuplicateScanResult.duplicate_count
duplicate_count(res) ==
    SumSeq([i \in 1..Len(res.data) |-> Len(res.data[i].val) - 1])

\* DuplicateScanResult.duplicate_size
duplicate_size(res) ==
    SumSeq([i \in 1..Len(res.data) |->
               res.data[i].val[1].st_size * (Len(res.data[i].val) - 1)])

(***************************************************************************)
(* Cleaner.                                                                *)
(***************************************************************************)
\* DEBUG is False, so a duplicate is removed with os.remove, not renamed.
\* os.remove(path) raises when nothing but a directory is at path
remove_raises(f, path) == LPath(f, path) \notin Slots \/ f[LPath(f, path)].kind = "none"
os_remove(f, path) == [f EXCEPT ![LPath(f, path)] = NoNode]

\* os.symlink(target, path) raises when path exists
symlink_raises(f, path) == LPath(f, path) \notin Slots \/ f[LPath(f, path)].kind # "none"
os_symlink(f, target, path) == [f EXCEPT ![LPath(f, path)] = LinkNode(FALSE, target)]

\* the inner loop of clean_duplicates: for dst in val[1:]
RECURSIVE clean_group(_, _, _, _)
clean_group(f, src, dsts, replace_with_links) ==
    IF dsts = <<>> THEN [raised |-> FALSE, fs |-> f]
    ELSE LET dst == Head(dsts)
         IN  IF remove_raises(f, dst.path) THEN [raised |-> TRUE, fs |-> f]
             ELSE LET f1 == os_remove(f, dst.path)
                      relative_src == relpath(src.path, Parent(dst.path))
                  IN  IF ~replace_with_links
                      THEN clean_group(f1, src, Tail(dsts), replace_with_links)
                      ELSE IF symlink_raises(f1, dst.path)
                           THEN [raised |-> TRUE, fs |-> f1]
                      ELSE clean_group(os_symlink(f1, relative_src, dst.path),
                                       src, Tail(dsts), replace_with_links)

\* clean_duplicates(duplicates, replace_with_links)
RECURSIVE clean_duplicates(_, _, _)
clean_duplicates(f, duplicates, replace_with_links) ==
    IF duplicates = <<>> THEN [raised |-> FALSE, fs |-> f]
    ELSE LET val == Head(duplicates).val
         IN  IF Len(val) < 2
             THEN clean_duplicates(f, Tail(duplicates), replace_with_links)
             ELSE LET r == clean_group(f, val[1], Tail(val), replace_with_links)
                  IN  IF r.raised THEN r
                      ELSE clean_duplicates(r.fs, Tail(duplicates),
                                            replace_with_links)

(***************************************************************************)
(* The cache file (JSON).                                                  *)
(***************************************************************************)
\* json.dump writes the os.stat_result as its tuple, whose times are whole
\* seconds
json_time(t) == (t \div TicksPerSec) * TicksPerSec

\* DB.save(cachefile, fmt='json')
DB_save(cache) ==
    [exists |-> TRUE, valid |-> TRUE,
     data |-> [i \in 1..Len(cache) |->
                 [cache[i] EXCEPT !.direntry.st_mtime = json_time(@)]]]

\* DB.load(cachefile, fmt='json'): json.load raises on a corrupt file
load_raises(file) == ~file.valid
DB_load(cache, file) == DictUpdate(cache, file.data)

NoFile == [exists |-> FALSE, valid |-> FALSE, data |-> <<>>]
CorruptFile == [exists |-> TRUE, valid |-> FALSE, data |-> <<>>]

(***************************************************************************)
(* Inputs.                                                                 *)
(***************************************************************************)
MissingRoot == <<nZ>>
Roots == {<<nA>>, <<nA, nB>>, <<nA, nBC>>}
ScanRoots == {<<nA>>, <<nA, nB>>}

\* the ignore_patterns arguments: none, the default, one that matches "x"
PatternSets == {<<>>, IGNORE_PATTERNS, << <<"x", "*">> >>}

\* the trees a scan-and-clean run starts from: regular files written at
\* tick 1, at most one of them unreadable, and at most one symbolic link, to
\* a directory that does not contain it or to a file
Unreadable == <<nA, nB, nY>>
FileChoices(s) ==
    IF s = <<nA, nB, nHid, nX>> THEN {NoNode, FileNode(<<0>>, 1, TRUE)}
    ELSE {NoNode} \cup {FileNode(c, 1, TRUE) : c \in Contents}
             \cup (IF s = Unreadable THEN {FileNode(<<0>>, 1, FALSE)} ELSE {})
LinkChoices ==
    {NoNode, LinkNode(TRUE, <<nA, nBC>>), LinkNode(TRUE, <<nA, nB, nHid>>),
     LinkNode(TRUE, <<nA, nB, nX>>)}
Trees ==
    {f \in [Slots -> UNION {FileChoices(s) : s \in FileSlots} \cup LinkChoices] :
        /\ f[LinkSlot] \in LinkChoices
        /\ \A s \in FileSlots : f[s] \in FileChoices(s)}

\* the trees a store run starts from
StoreChoices(s) ==
    CASE s = <<nA, nB, nX>> -> {NoNode, FileNode(<<0>>, 1, TRUE)}
      [] s = <<nA, nB, nY>> -> {NoNode, FileNode(<<0>>, 1, TRUE)}
      [] s = <<nA, nBC, nX>> -> {NoNode, FileNode(<<0>>, 1, TRUE)}
      [] s = <<nA, nB, nHid, nX>> -> {NoNode, FileNode(<<0>>, 1, TRUE)}
      [] s = LinkSlot -> {NoNode, LinkNode(TRUE, <<nA, nBC>>)}
StoreTrees ==
    {f \in [Slots -> UNION {StoreChoices(s) : s \in Slots}] :
        \A s \in Slots : f[s] \in StoreChoices(s)}

\* the trees a run of main starts from
SmallChoices(s) ==
    CASE s = <<nA, nB, nX>> -> {NoNode, FileNode(<<0>>, 1, TRUE), FileNode(<<1>>, 1, TRUE)}
      [] s = <<nA, nB, nY>> -> {NoNode, FileNode(<<0>>, 1, TRUE)}
      [] s = <<nA, nBC, nX>> -> {NoNode, FileNode(<<0>>, 1, TRUE)}
      [] s = <<nA, nB, nHid, nX>> -> {NoNode}
      [] s = LinkSlot -> {NoNode, LinkNode(TRUE, <<nA, nBC>>)}
SmallTrees ==
    {f \in [Slots -> UNION {SmallChoices(s) : s \in Slots}] :
        \A s \in Slots : f[s] \in SmallChoices(s)}

\* the file a store run writes, and what it writes
WriteSlots == {<<nA, nB, nX>>}
WriteContents == {<<0>>, <<1>>}

NoOp == [op |-> "none", root |-> <<>>, patterns |-> <<>>, checksum |-> FALSE,
         keyfunc |-> "none", rev |-> FALSE, replace |-> FALSE,
         clean |-> FALSE, usecache |-> FALSE, raised |-> FALSE,
         ret |-> "none"]

(***************************************************************************)
(* A scan-and-clean run: one call of scan_duplicates on a tree, and        *)
(* clean_duplicates on the groups found.                                   *)
(***************************************************************************)
Init ==
    /\ fs \in Trees
    /\ store = <<>>
    /\ result = NoResult
    /\ last = NoOp
    /\ hashed = {}
    /\ cachefile = NoFile
    /\ phase = "init"
    /\ ops = 0

\* scan_duplicates(dataroot, keyfunc, ignore_patterns) on a new DB
ScanDuplicates(dataroot, keyfunc, ignore_patterns, rev) ==
    /\ phase = "init"
    /\ LET compute_checksum == keyfunc = "md5_key"
           r == DB_update(fs, <<>>, dataroot, ignore_patterns,
                          compute_checksum, rev)
       IN  /\ store' = r.store
           /\ hashed' = r.hashed
           /\ result' = IF r.raised THEN NoResult
                        ELSE find_duplicates(r.store, keyfunc)
           /\ last' = [NoOp EXCEPT !.op = "scan_duplicates", !.root = dataroot,
                          !.patterns = ignore_patterns,
                          !.checksum = compute_checksum, !.keyfunc = keyfunc,
                          !.rev = rev, !.raised = r.raised]
    /\ phase' = "scanned"
    /\ UNCHANGED <<fs, cachefile, ops>>

\* clean_duplicates(result.data, replace_with_links) after a scan
CleanDuplicates(replace_with_links) ==
    /\ phase = "scanned"
    /\ ~last.raised
    /\ LET r == clean_duplicates(fs, result.data, replace_with_links)
       IN  /\ fs' = r.fs
           /\ last' = [last EXCEPT !.op = "clean_duplicates",
                          !.replace = replace_with_links, !.raised = r.raised]
    /\ phase' = "cleaned"
    /\ UNCHANGED <<store, result, hashed, cachefile, ops>>

Next ==
    \/ \E dataroot \in ScanRoots, keyfunc \in KeyFuncs,
          ignore_patterns \in PatternSets, rev \in BOOLEAN :
            ScanDuplicates(dataroot, keyfunc, ignore_patterns, rev)
    \/ \E replace_with_links \in BOOLEAN : CleanDuplicates(replace_with_links)

Spec == Init /\ [][Next]_vars

(***************************************************************************)
(* A store run: one DB object, updated, cleaned and queried while the      *)
(* files under it are written and removed.                                 *)
(***************************************************************************)
InitStore ==
    /\ fs \in StoreTrees
    /\ store = <<>>
    /\ result = NoResult
    /\ last = NoOp
    /\ hashed = {}
    /\ cachefile = NoFile
    /\ phase = "store"
    /\ ops = 0

\* DB.update(dataroot, ignore_patterns, checksum)
Update(dataroot, ignore_patterns, checksum) ==
    /\ phase = "store"
    /\ ops < MaxOps
    /\ \E r \in {DB_update(fs, store, dataroot, ignore_patterns, checksum,
                            FALSE)} :
           /\ store' = r.store
           /\ hashed' = r.hashed
           /\ last' = [NoOp EXCEPT !.op = "update", !.root = dataroot,
                          !.patterns = ignore_patterns, !.checksum = checksum,
                          !.raised = r.raised]
    /\ result' = NoResult
    /\ ops' = ops + 1
    /\ UNCHANGED <<fs, cachefile, phase>>

\* DB.clean(path); path_is_none stands for the call without a path
Clean(path_is_none, path) ==
    /\ phase = "store"
    /\ ops < MaxOps
    /\ LET r == DB_clean(store, path_is_none, path)
       IN  /\ store' = r.store
           /\ last' = [NoOp EXCEPT !.op = IF path_is_none THEN "clean_all"
                                          ELSE "clean",
                          !.root = path, !.raised = r.raised]
    /\ result' = NoResult
    /\ ops' = ops + 1
    /\ UNCHANGED <<fs, hashed, cachefile, phase>>

\* DB.find_duplicates(keyfunc)
FindDuplicates(keyfunc) ==
    /\ phase = "store"
    /\ ops < MaxOps
    /\ result' = find_duplicates(store, keyfunc)
    /\ last' = [NoOp EXCEPT !.op = "find_duplicates", !.keyfunc = keyfunc]
    /\ ops' = ops + 1
    /\ UNCHANGED <<fs, store, hashed, cachefile, phase>>

\* a file is created or rewritten at tick t
WriteFile(slot, content, t) ==
    /\ phase = "store"
    /\ ops < MaxOps
    /\ fs[slot].kind # "link"
    /\ fs' = [fs EXCEPT ![slot] = FileNode(content, t, TRUE)]
    /\ last' = [NoOp EXCEPT !.op = "fs"]
    /\ result' = NoResult
    /\ ops' = ops + 1
    /\ UNCHANGED <<store, hashed, cachefile, phase>>

\* a file is deleted
RemoveFile(slot) ==
    /\ phase = "store"
    /\ ops < MaxOps
    /\ fs[slot].kind = "file"
    /\ fs' = [fs EXCEPT ![slot] = NoNode]
    /\ last' = [NoOp EXCEPT !.op = "fs"]
    /\ result' = NoResult
    /\ ops' = ops + 1
    /\ UNCHANGED <<store, hashed, cachefile, phase>>

\* DB.save(cachefile, fmt='json')
Save ==
    /\ phase = "store"
    /\ ops < MaxOps
    /\ cachefile' = DB_save(store)
    /\ last' = [NoOp EXCEPT !.op = "save"]
    /\ result' = NoResult
    /\ ops' = ops + 1
    /\ UNCHANGED <<fs, store, hashed, phase>>

\* DB.load(cachefile, fmt='json'): open raises when the file is missing,
\* json.load when it is corrupt; the entries read are merged into the store
Load ==
    /\ phase = "store"
    /\ ops < MaxOps
    /\ LET raised == ~cachefile.exists \/ load_raises(cachefile)
       IN  /\ store' = IF raised THEN store ELSE DB_load(store, cachefile)
           /\ last' = [NoOp EXCEPT !.op = "load", !.raised = raised]
    /\ result' = NoResult
    /\ ops' = ops + 1
    /\ UNCHANGED <<fs, hashed, cachefile, phase>>

NextStore ==
    \/ \E dataroot \in Roots, ignore_patterns \in {<<>>, IGNORE_PATTERNS},
          checksum \in BOOLEAN : Update(dataroot, ignore_patterns, checksum)
    \/ \E path \in Roots : Clean(FALSE, path)
    \/ Clean(TRUE, <<>>)
    \/ \E keyfunc \in KeyFuncs : FindDuplicates(keyfunc)
    \/ \E slot \in WriteSlots, content \in WriteContents, t \in Times :
          WriteFile(slot, content, t)
    \/ \E slot \in FileSlots : RemoveFile(slot)
    \/ Save
    \/ Load

SpecStore == InitStore /\ [][NextStore]_vars

(***************************************************************************)
(* Runs of the program: main is run on a tree, each run with its own       *)
(* arguments, all runs that cache with the same cache file.                *)
(***************************************************************************)
InitMain ==
    /\ fs \in SmallTrees
    /\ store = <<>>
    /\ result = NoResult
    /\ last = NoOp
    /\ hashed = {}
    /\ cachefile \in {NoFile, CorruptFile}
    /\ phase = "main"
    /\ ops = 0

\* main() with the arguments dataroot, --key, --clean and --cache; last.raised
\* tells that the run ended with an exception, last.ret is the value main
\* returned otherwise (the function has no return statement)
Main(dataroot, keyfunc, clean, usecache) ==
    /\ phase = "main"
    /\ ops < MaxRuns
    /\ LET op == [NoOp EXCEPT !.op = "main", !.root = dataroot,
                     !.patterns = IGNORE_PATTERNS,
                     !.checksum = (keyfunc = "md5_key"), !.keyfunc = keyfunc,
                     !.clean = clean, !.usecache = usecache]
           doload == usecache /\ cachefile.exists
           db0 == IF doload /\ ~load_raises(cachefile)
                  THEN DB_load(<<>>, cachefile) ELSE <<>>
           compute_checksum == keyfunc = "md5_key"
       IN  IF doload /\ load_raises(cachefile)
           THEN /\ store' = <<>>
                /\ hashed' = {}
                /\ result' = NoResult
                /\ last' = [op EXCEPT !.raised = TRUE]
                /\ UNCHANGED <<fs, cachefile>>
           ELSE \E r \in {DB_update(fs, db0, dataroot, IGNORE_PATTERNS,
                                    compute_checksum, FALSE)} :
                IF r.raised
                THEN /\ store' = r.store
                     /\ hashed' = r.hashed
                     /\ result' = NoResult
                     /\ last' = [op EXCEPT !.raised = TRUE]
                     /\ UNCHANGED <<fs, cachefile>>
                ELSE \E res \in {find_duplicates(r.store, keyfunc)} :
                     \E c \in {IF clean
                               THEN clean_duplicates(fs, res.data, FALSE)
                               ELSE [raised |-> FALSE, fs |-> fs]} :
                       /\ store' = r.store
                       /\ hashed' = r.hashed
                       /\ cachefile' = IF usecache THEN DB_save(r.store)
                                       ELSE cachefile
                       /\ result' = res
                       /\ fs' = c.fs
                       /\ last' = [op EXCEPT !.raised = c.raised,
                                     !.ret = IF c.raised THEN "none" ELSE None]
    /\ ops' = ops + 1
    /\ UNCHANGED phase

NextMain ==
    \E dataroot \in Roots \cup {MissingRoot}, keyfunc \in KeyFuncs,
       clean \in BOOLEAN, usecache \in BOOLEAN :
         Main(dataroot, keyfunc, clean, usecache)

SpecMain == InitMain /\ [][NextMain]_vars

(***************************************************************************)
(* Properties.                                                             *)
(***************************************************************************)
\* p is q or a directory above q
IsUnder(q, p) == Len(p) <= Len(q) /\ SubSeq(q, 1, Len(p)) = p

\* the key of the file at a path, read from the file system
KeyOf(f, path, keyfunc) ==
    CASE keyfunc = "name_key" -> Basename(path)
      [] keyfunc = "name_and_size_key" ->
            <<Basename(path), Len(FileAt(f, path).content)>>
      [] keyfunc = "md5_key" -> Md5Hex(FileAt(f, path).content)

\* the paths of the members of group i of a result
GroupPaths(res, i) == {res.data[i].val[j].path : j \in 1..Len(res.data[i].val)}
GroupedPaths(res) == UNION {GroupPaths(res, i) : i \in 1..Len(res.data)}

ScanReturned == phase = "scanned" /\ last.op = "scan_duplicates" /\ ~last.raised

\* C1: the result of scan_duplicates on a fresh store is the set of
\* equivalence classes of size >= 2 of the scanned files under the key: two
\* scanned files share a group iff their keys (read from the files) are equal,
\* a file is grouped iff another scanned file has its key, no group has fewer
\* than 2 members, and duplicate_count() is the number of grouped files minus
\* the number of groups.
C1_GroupsAreKeyClasses ==
    ScanReturned =>
        LET files == DictKeys(store)
            k(p) == KeyOf(fs, p, result.keytype)
        IN  /\ result.keytype = last.keyfunc
            /\ GroupedPaths(result) \subseteq files
            /\ \A i \in 1..Len(result.data) :
                  /\ Len(result.data[i].val) >= 2
                  /\ Cardinality(GroupPaths(result, i)) = Len(result.data[i].val)
                  /\ \A p \in GroupPaths(result, i) : k(p) = result.data[i].key
            /\ \A i, j \in 1..Len(result.data) :
                  i # j => result.data[i].key # result.data[j].key
            /\ \A p, q \in files :
                  (p # q /\ k(p) = k(q)) =>
                      \E i \in 1..Len(result.data) :
                          {p, q} \subseteq GroupPaths(result, i)
            /\ duplicate_count(result) =
                  Cardinality(GroupedPaths(result)) - Len(result.data)

\* a content-hash scan that found a group of two or more files and left a
\* scanned file out of every group
C1_Witness ==
    /\ ScanReturned
    /\ last.keyfunc = "md5_key"
    /\ Len(result.data) >= 1
    /\ DictKeys(store) \ GroupedPaths(result) # {}
    /\ duplicate_count(result) >= 2

\* C2: after DB.update(root) the store holds no symbolic link and no file
\* that can be reached from root only through a symbolic link to a directory.
C2_NoSymlinkFollowed ==
    ScanReturned =>
        \A i \in 1..Len(store) :
            /\ ~IsSymlinkAt(fs, store[i].key)
            /\ IsUnder(RealPath(fs, store[i].key), last.root)

\* the names of the path q below the directory p
NamesBelow(q, p) == {q[i] : i \in (Len(p) + 1)..Len(q)}

\* C3: a regular file under root is scanned iff neither its name nor the name
\* of a directory between root and it matches a pattern of ignore_patterns.
C3_IgnorePatternsApplied ==
    ScanReturned =>
        \A s \in FileSlots :
            (IsUnder(s, last.root) /\ fs[s].kind = "file") =>
                (s \in DictKeys(store) <=>
                    \A n \in NamesBelow(s, last.root) :
                        ~pattern_match(last.patterns, n))

\* C4: when clean_duplicates(groups, replace_with_links) completes, the first
\* member of every group still exists, unmodified and not a symbolic link;
\* with replace_with_links every other member is a symbolic link with a
\* relative target that resolves to the first member, and without it no
\* other member exists any more.
C4_CleanKeepsSurvivor ==
    [][(phase = "scanned" /\ phase' = "cleaned" /\ ~last'.raised) =>
        \A i \in 1..Len(result.data) :
            LET val == result.data[i].val
                src == val[1]
            IN  /\ IsFileAt(fs', src.path, FALSE)
                /\ ~IsSymlinkAt(fs', src.path)
                /\ FileAt(fs', src.path) = FileAt(fs, src.path)
                /\ \A j \in 2..Len(val) :
                      IF last'.replace
                      THEN /\ IsSymlinkAt(fs', val[j].path)
                           /\ ~fs'[LPath(fs', val[j].path)].abs
                           /\ RealPath(fs', val[j].path) = RealPath(fs', src.path)
                      ELSE ~LExistsAt(fs', val[j].path)]_vars

\* C5: after a run of main with --clean every member of a duplicate group but
\* the first is a symbolic link to the first, so every reported path exists.
C5_MainCleanLeavesLinks ==
    (last.op = "main" /\ last.clean /\ ~last.raised) =>
        \A i \in 1..Len(result.data) :
            \A j \in 2..Len(result.data[i].val) :
                LET val == result.data[i].val
                IN  /\ LExistsAt(fs, val[j].path)
                    /\ IsSymlinkAt(fs, val[j].path)
                    /\ RealPath(fs, val[j].path) = RealPath(fs, val[1].path)

\* an update of the store is this step
IsUpdateStep == ops' = ops + 1 /\ last'.op = "update"

\* C6: when DB.update(root, checksum=True) returns and is run again with the
\* same arguments on the same store and an unchanged tree, find_duplicates
\* (md5_key) returns the same groups and the same duplicate_count() after
\* both, and the second update calls md5_key on no file.
C6_SecondUpdateReuses ==
    [][(/\ last.op = "update" /\ ~last.raised /\ last.checksum
        /\ IsUpdateStep /\ ~last'.raised /\ last'.checksum
        /\ last'.root = last.root /\ last'.patterns = last.patterns) =>
            /\ hashed' = {}
            /\ find_duplicates(store', "md5_key") = find_duplicates(store, "md5_key")
            /\ duplicate_count(find_duplicates(store', "md5_key"))
                  = duplicate_count(find_duplicates(store, "md5_key"))]_vars

\* a second checksum update of a store that holds duplicates called md5_key
\* on no file
C6_Witness ==
    /\ last.op = "update" /\ ~last.raised /\ last.checksum
    /\ ops >= 2
    /\ hashed = {}
    /\ duplicate_count(find_duplicates(store, "md5_key")) >= 1
    /\ \A i \in 1..Len(store) : store[i].md5 # None

\* C7: right after DB.update(root) returns, the entries of the store under
\* root are the regular, non-ignored files of the tree as it is now: each entry
\* under root names a regular file that exists, with its present size and
\* time, below no ignored name, and each such file that is reached without a
\* symbolic link has an entry.  An entry of a file deleted since is gone.
C7_UpdatePrunesDeleted ==
    (last.op = "update" /\ ~last.raised /\ last.patterns = IGNORE_PATTERNS) =>
        /\ \A i \in 1..Len(store) :
              IsUnder(store[i].key, last.root) =>
                  /\ IsFileAt(fs, store[i].key, FALSE)
                  /\ store[i].direntry = from_entry(fs,
                         [name |-> Basename(store[i].key), path |-> store[i].key])
                  /\ \A n \in NamesBelow(store[i].key, last.root) :
                         ~pattern_match(IGNORE_PATTERNS, n)
        /\ \A s \in FileSlots :
              (/\ IsUnder(s, last.root) /\ fs[s].kind = "file"
               /\ \A n \in NamesBelow(s, last.root) :
                      ~pattern_match(IGNORE_PATTERNS, n))
                  => s \in DictKeys(store)

\* an update, after two other steps, of a tree where /a/b/x is no more,
\* /a/b/y still is and the hidden directory holds a file
C7_Witness ==
    /\ last.op = "update" /\ ~last.raised /\ last.patterns = IGNORE_PATTERNS
    /\ last.root = <<nA, nB>>
    /\ ops >= 3
    /\ fs[<<nA, nB, nX>>].kind = "none"
    /\ fs[<<nA, nB, nHid, nX>>].kind = "file"
    /\ DictKeys(store) = {<<nA, nB, nY>>}

\* C8: DB.clean() without a root completes without error and leaves the store
\* empty.
C8_CleanAllEmpties ==
    last.op = "clean_all" => (~last.raised /\ store = <<>>)

\* the size of the file at a path
SizeAt(f, path) == Len(FileAt(f, path).content)

\* the sizes of the members of group i but the first
RemovedSizes(f, res, i) ==
    [j \in 1..(Len(res.data[i].val) - 1) |-> SizeAt(f, res.data[i].val[j + 1].path)]

SizeIsExact(f, res) ==
    /\ \A i \in 1..Len(res.data) :
          \A j \in 1..Len(res.data[i].val) :
              SizeAt(f, res.data[i].val[j].path) = SizeAt(f, res.data[i].val[1].path)
    /\ duplicate_size(res) =
          SumSeq([i \in 1..Len(res.data) |-> SumSeq(RemovedSizes(f, res, i))])

\* C9 as claimed: in every result of name_key or name_and_size_key the
\* members of a group have the same size and duplicate_size() is the total
\* size of the members but the first.
C9_SizeExactForNameKeys ==
    (ScanReturned /\ last.keyfunc \in {"name_key", "name_and_size_key"}) =>
        SizeIsExact(fs, result)

\* C9 amended: in every result of name_and_size_key the members of a group
\* have the same size and duplicate_size() is the total size of the members
\* but the first.
C9_SizeExactForNameAndSize ==
    (ScanReturned /\ last.keyfunc = "name_and_size_key") =>
        SizeIsExact(fs, result)

\* a name-and-size scan that found a group of files that are not empty, and
\* a file of the same name and another size outside it
C9_Witness ==
    /\ ScanReturned /\ last.keyfunc = "name_and_size_key"
    /\ duplicate_size(result) >= 1
    /\ \E p \in DictKeys(store) \ GroupedPaths(result) :
          \E q \in GroupedPaths(result) :
              Basename(p) = Basename(q) /\ SizeAt(fs, p) # SizeAt(fs, q)

\* the tree without the files that cannot be read
Readable(f) ==
    [s \in Slots |-> IF f[s].kind = "file" /\ ~f[s].readable THEN NoNode ELSE f[s]]

\* C10: a file that cannot be read does not abort DB.update(root,
\* checksum=True): the update completes and the store and the groups are
\* those of the tree without that file.
C10_UnreadableFileSkipped ==
    (phase = "scanned" /\ last.op = "scan_duplicates" /\ last.checksum) =>
        /\ ~last.raised
        /\ store = DB_update(Readable(fs), <<>>, last.root, last.patterns,
                             TRUE, last.rev).store
        /\ result = find_duplicates(store, "md5_key")

-----------------------------------------------------------------------------
\* a step that is one run of main
IsMainStep == ops' = ops + 1 /\ last'.op = "main"

\* C11: a run of main whose cache file exists but cannot be loaded does not
\* fail on that account: when the walk of the root succeeds, the run ends with
\* the store and the result of the same run started without any cache.
C11_CorruptCacheIsMiss ==
    [][(/\ IsMainStep
        /\ last'.usecache
        /\ cachefile.exists
        /\ load_raises(cachefile))
       => LET r == DB_update(fs, <<>>, last'.root, IGNORE_PATTERNS,
                             last'.checksum, FALSE)
          IN  ~r.raised
                => /\ store' = r.store
                   /\ result' = find_duplicates(r.store, last'.keyfunc)
                   /\ (last'.raised => last'.clean)]_vars

\* the statuses the tests of main compare its return value with
EX_OK == "EX_OK"
EX_FAILURE == "EX_FAILURE"

\* C12: a run of main that completes returns the success status, also when it
\* found no duplicates, and a run on a root that does not exist returns the
\* failure status instead of raising or succeeding.
C12_ExitStatus ==
    last.op = "main"
      => /\ ~IsDirAt(fs, last.root, TRUE)
              => ~last.raised /\ last.ret = EX_FAILURE
         /\ ~last.raised /\ IsDirAt(fs, last.root, TRUE)
              => last.ret = EX_OK

\* the hex digests a content can have
HexDigests == {Md5Hex(content) : content \in Contents}

\* C13: whatever DB.load, DB.update and the other store operations came
\* before, every key of find_duplicates(md5_key) is a content-hash hex string
\* and every member of its group is stored with exactly that hash; in
\* particular entries without a stored hash are never grouped together.
C13_Md5GroupsAreHashClasses ==
    (last.op = "find_duplicates" /\ last.keyfunc = "md5_key")
      => \A i \in 1..Len(result.data) :
            /\ result.data[i].key \in HexDigests
            /\ \A path \in GroupPaths(result, i) :
                  DictGet(store, path).md5 = result.data[i].key

\* C14: DB.update(root) and DB.clean(root) leave every store entry whose file
\* is not inside the directory root as it was, entries of a sibling directory
\* whose path begins with the characters of root (/a/bc for /a/b) included.
C14_OutsideRootUntouched ==
    [][(ops' = ops + 1 /\ last'.op \in {"update", "clean"})
       => \A i \in 1..Len(store) :
             ~IsUnder(store[i].key, last'.root)
               => /\ DictHas(store', store[i].key)
                  /\ DictGet(store', store[i].key) = store[i]]_vars

\* the store keys inside the directory root
KeysUnder(cache, root) == {k \in DictKeys(cache) : IsUnder(k, root)}

\* C15: in a run of main with a cache file, whatever earlier runs wrote to that
\* file, every file of the reported duplicate groups lies under the dataroot of
\* the run and is one the walk of the run stored, and the reported number of
\* scanned files counts only files under the dataroot.
C15_ReportStaysInDataroot ==
    (last.op = "main" /\ last.usecache /\ ~last.raised)
      => /\ \A path \in GroupedPaths(result) : IsUnder(path, last.root)
         /\ result.scanned_files = Cardinality(KeysUnder(store, last.root))

====
